---------------------------- MODULE Spec2Model ----------------------------
(***************************************************************************)
(* Model of finality-aleph/src/sync/data.rs: the sync message model, the   *)
(* conversions between NetworkDataV1 and NetworkData, the versioned        *)
(* envelope codec (VersionedNetworkData) and the VersionWrapper adapter    *)
(* around a GossipNetwork of versioned envelopes.                          *)
(*                                                                         *)
(* Two specifications:                                                     *)
(*   Spec       the VersionWrapper adapter over a nondeterministic inner   *)
(*              transport (send_to, send_to_random, broadcast, next);      *)
(*   CodecSpec  the pure functions (From conversions, encode, decode)      *)
(*              applied to inputs drawn from bounded sets.                 *)
(***************************************************************************)
EXTENDS Integers, Sequences, FiniteSets, TLC

VARIABLES
    \* ---- adapter (Spec) ----
    pc,          \* position of the adapter's next() future: "idle" | "waiting"
    innerCalls,  \* calls made on the inner transport by the last adapter send
    innerResults,\* what the inner transport returned for each of those calls
    lastSend,    \* the last adapter send operation and the result it returned
    arrived,     \* what the inner transport delivered for those calls, in order
    yielded,     \* everything inner.next() has resolved to so far, in order
    returned,    \* results of the completed adapter next() calls, in order
    delivered,   \* indices of yielded whose message was returned to the caller
    callRead,    \* indices of yielded read by the current / most recent next()
    callStart,   \* Len(yielded) when the current / most recent next() was called
    callState,   \* "none" | "pending" | "returned" | "cancelled"
    \* ---- the receiving side alone (RecvSpec) ----
    cancelledAt, \* Len(yielded) when a next() was first cancelled, or NoCancel
    \* ---- two adapters joined by a transport (LinkSpec) ----
    channel,     \* envelopes accepted by the transport, not yet received
    sent,        \* the sender's send operations and their results, in order
    \* ---- pure functions (CodecSpec) ----
    item,        \* the current value: [kind, value]
    hist         \* the values it was computed from, oldest first

sendVars == <<innerCalls, innerResults, lastSend, arrived>>
recvVars == <<yielded, returned, delivered, callRead, callStart, callState>>
linkVars == <<channel, sent>>
\* What the adapter's operations do not touch: each specification says what
\* becomes of them.
auxVars == <<cancelledAt, channel, sent>>
codecVars == <<item, hist>>
vars == <<pc, innerCalls, innerResults, lastSend, arrived, yielded, returned, delivered,
          callRead, callStart, callState, cancelledAt, channel, sent, item, hist>>

(***************************************************************************)
(* Bounds of the model.                                                    *)
(***************************************************************************)
\* Values of the type parameters J::Unverified, J::Header, B and BlockIdFor<J>
\* are 0..MaxVal.
MaxVal == 1
\* Longest Vec of justifications or headers that is enumerated exhaustively.
MaxVec == 2
\* Number of results of inner.next() in a behaviour.
MaxYield == 2
\* Number of pure-function applications chained on one input.
MaxHist == 3
\* Number of results of inner.next() in a behaviour of the receiving side alone.
MaxRecv == 3
\* Number of Other messages the transport yields to one call of next() before
\* it yields a V1 message, a V2 message or an error.
MaxOthers == 2
\* Number of results of inner.next() in a behaviour of the fair receiving side.
MaxLive == 5
\* Number of sends of the sending adapter in a behaviour of two joined adapters.
MaxSends == 2

Vals == 0..MaxVal

RECURSIVE SeqsUpTo(_, _)
SeqsUpTo(S, n) ==
    IF n = 0 THEN {<<>>}
    ELSE LET shorter == SeqsUpTo(S, n - 1)
         IN shorter \cup {Append(s, x) : s \in {t \in shorter : Len(t) = n - 1}, x \in S}

(***************************************************************************)
(* Fixed-width integers.  A u32 (Version's field, ByteCount) is kept as    *)
(* its four little-endian bytes, which is also its SCALE encoding: the     *)
(* whole range 0 .. 2^32 - 1 is represented exactly.  The length of a      *)
(* payload is an integer where the payload is at hand, and a usize of      *)
(* eight little-endian bytes where it is converted to a ByteCount.         *)
(***************************************************************************)
\* The u32 with value n, for 0 <= n < 2^31.
U32(n) == <<n % 256, (n \div 256) % 256, (n \div 65536) % 256, (n \div 16777216) % 256>>

\* ByteCount::MAX
ByteCount_MAX == <<255, 255, 255, 255>>

\* b > n, for a u32 b and 0 <= n < 2^31.
U32_gt(b, n) ==
    \/ b[4] >= 128
    \/ b[1] + 256 * b[2] + 65536 * b[3] + 16777216 * b[4] > n

\* `b as usize`, for a u32 b below 2^31.
U32_as_usize(b) == b[1] + 256 * b[2] + 65536 * b[3] + 16777216 * b[4]

\* Version(n)
Version(n) == U32(n)

\* The usize with value n, for 0 <= n < 2^31.
Usize(n) == U32(n) \o <<0, 0, 0, 0>>

\* A conversion that keeps the low 32 bits (`as ByteCount`).
ByteCount_try_from_wrapping(len) == <<"Ok", SubSeq(len, 1, 4)>>

\* ByteCount::try_from(usize): <<"Ok", u32>>, or <<"Err">> when the value
\* does not fit in 32 bits.
ByteCount_try_from(len) ==
    IF SubSeq(len, 5, 8) = <<0, 0, 0, 0>> THEN <<"Ok", SubSeq(len, 1, 4)>> ELSE <<"Err">>

\* Result::unwrap_or
unwrap_or(r, default) == IF r[1] = "Ok" THEN r[2] ELSE default

(***************************************************************************)
(* Message model (data.rs 13-102).  A struct or an enum variant is a tuple *)
(* that starts with its name; Option<T> is <<>> (None) or <<x>> (Some(x)). *)
(***************************************************************************)
State(top_justification) == <<"State", top_justification>>

LowestId(id) == <<"LowestId", id>>
TopImported(id) == <<"TopImported", id>>

Request(target_id, branch_knowledge, state) ==
    <<"RequestData", target_id, branch_knowledge, state>>

\* Variants shared by NetworkDataV1 and NetworkData.
StateBroadcast(state) == <<"StateBroadcast", state>>
StateBroadcastResponse(justification, maybe_justification) ==
    <<"StateBroadcastResponse", justification, maybe_justification>>
RequestMsg(request) == <<"Request", request>>
\* NetworkDataV1::RequestResponse(Vec<J::Unverified>)
RequestResponseV1(justifications) == <<"RequestResponse", justifications>>
\* NetworkData::RequestResponse(Vec<J::Unverified>, Vec<J::Header>, Vec<B>)
RequestResponse(justifications, headers, blocks) ==
    <<"RequestResponse", justifications, headers, blocks>>

Tag(x) == x[1]

(***************************************************************************)
(* Version conversion (data.rs 104-132).                                   *)
(***************************************************************************)
\* An upward conversion that fills the headers with the justifications.
NetworkData_from_filling_headers(data) ==
    CASE Tag(data) = "StateBroadcast" -> StateBroadcast(data[2])
      [] Tag(data) = "StateBroadcastResponse" -> StateBroadcastResponse(data[2], data[3])
      [] Tag(data) = "Request" -> RequestMsg(data[2])
      [] Tag(data) = "RequestResponse" -> RequestResponse(data[2], data[2], <<>>)

\* impl From<NetworkDataV1<J>> for NetworkData<B, J>
NetworkData_from(data) ==
    CASE Tag(data) = "StateBroadcast" -> StateBroadcast(data[2])
      [] Tag(data) = "StateBroadcastResponse" -> StateBroadcastResponse(data[2], data[3])
      [] Tag(data) = "Request" -> RequestMsg(data[2])
      [] Tag(data) = "RequestResponse" -> RequestResponse(data[2], <<>>, <<>>)

\* A downward conversion that drops the optional second justification.
NetworkDataV1_from_dropping_option(data) ==
    CASE Tag(data) = "StateBroadcast" -> StateBroadcast(data[2])
      [] Tag(data) = "StateBroadcastResponse" -> StateBroadcastResponse(data[2], <<>>)
      [] Tag(data) = "Request" -> RequestMsg(data[2])
      [] Tag(data) = "RequestResponse" -> RequestResponseV1(data[2])

\* impl From<NetworkData<B, J>> for NetworkDataV1<J>
NetworkDataV1_from(data) ==
    CASE Tag(data) = "StateBroadcast" -> StateBroadcast(data[2])
      [] Tag(data) = "StateBroadcastResponse" -> StateBroadcastResponse(data[2], data[3])
      [] Tag(data) = "Request" -> RequestMsg(data[2])
      [] Tag(data) = "RequestResponse" -> RequestResponseV1(data[2])

(***************************************************************************)
(* VersionedNetworkData (data.rs 134-141).                                 *)
(***************************************************************************)
Other(version, payload) == <<"Other", version, payload>>
V1(data) == <<"V1", data>>
V2(data) == <<"V2", data>>

(***************************************************************************)
(* SCALE primitives (parity_scale_codec, data.rs 4) as derive(Encode,      *)
(* Decode) uses them.  An input is a byte sequence and the number of bytes *)
(* already consumed; a decoder returns <<"Ok", value, pos>> or             *)
(* <<"Err", message, pos>>.  The type parameters J::Unverified, J::Header, *)
(* B and BlockIdFor<J> are instantiated with one-byte types.               *)
(***************************************************************************)
DOk(value, pos) == <<"Ok", value, pos>>
DErr(message, pos) == <<"Err", message, pos>>
IsOk(r) == r[1] = "Ok"

Take(bytes, pos, n) == SubSeq(bytes, pos + 1, pos + n)
Left(bytes, pos) == Len(bytes) - pos

\* u8 and the one-byte type parameters
DecodeByte(bytes, pos) ==
    IF Left(bytes, pos) < 1 THEN DErr("Not enough data to fill buffer", pos)
    ELSE DOk(bytes[pos + 1], pos + 1)

\* u32, Version
DecodeU32(bytes, pos) ==
    IF Left(bytes, pos) < 4 THEN DErr("Not enough data to fill buffer", pos)
    ELSE DOk(Take(bytes, pos, 4), pos + 4)

\* Compact<u32>, the length prefix of a Vec
EncodeCompact(n) ==
    IF n < 64 THEN <<4 * n>>
    ELSE IF n < 16384 THEN <<(4 * n + 1) % 256, (4 * n + 1) \div 256>>
    ELSE IF n < 1073741824
         THEN <<(n % 64) * 4 + 2, (n \div 64) % 256, (n \div 16384) % 256, n \div 4194304>>
    ELSE <<3>> \o U32(n)

DecodeCompact(bytes, pos) ==
    IF Left(bytes, pos) < 1 THEN DErr("Not enough data to fill buffer", pos)
    ELSE LET prefix == bytes[pos + 1]
             mode == prefix % 4
         IN CASE mode = 0 -> DOk(prefix \div 4, pos + 1)
              [] mode = 1 ->
                    IF Left(bytes, pos) < 2 THEN DErr("Not enough data to fill buffer", pos)
                    ELSE LET x == (prefix \div 4) + 64 * bytes[pos + 2]
                         IN IF x > 63 THEN DOk(x, pos + 2)
                            ELSE DErr("out of range decoding Compact<u32>", pos + 2)
              [] mode = 2 ->
                    IF Left(bytes, pos) < 4 THEN DErr("Not enough data to fill buffer", pos)
                    ELSE LET x == (prefix \div 4) + 64 * bytes[pos + 2]
                                    + 16384 * bytes[pos + 3] + 4194304 * bytes[pos + 4]
                         IN IF x > 16383 THEN DOk(x, pos + 4)
                            ELSE DErr("out of range decoding Compact<u32>", pos + 4)
              [] OTHER ->
                    \* Four more bytes, a length of 2^30 at least: no input of
                    \* the model holds that many items, and any other prefix
                    \* is refused.
                    DErr("unexpected prefix decoding Compact<u32>", pos + 1)

\* Vec<T> of a one-byte T
EncodeVec(v) == EncodeCompact(Len(v)) \o v

DecodeVec(bytes, pos) ==
    LET n == DecodeCompact(bytes, pos)
    IN IF ~IsOk(n) THEN n
       ELSE IF Left(bytes, n[3]) < n[2] THEN DErr("Not enough data to fill buffer", n[3])
       ELSE DOk(Take(bytes, n[3], n[2]), n[3] + n[2])

\* Option<T> of a one-byte T
EncodeOption(o) == IF o = <<>> THEN <<0>> ELSE <<1, o[1]>>

DecodeOption(bytes, pos) ==
    LET t == DecodeByte(bytes, pos)
    IN IF ~IsOk(t) THEN t
       ELSE CASE t[2] = 0 -> DOk(<<>>, t[3])
              [] t[2] = 1 ->
                    LET x == DecodeByte(bytes, t[3])
                    IN IF IsOk(x) THEN DOk(<<x[2]>>, x[3]) ELSE x
              [] OTHER -> DErr("unexpected first byte decoding Option", t[3])

(***************************************************************************)
(* derive(Encode, Decode) for the message model (data.rs 15, 33, 45, 73,   *)
(* 89): a struct is its fields in order, an enum its variant index and     *)
(* then the variant's fields.                                              *)
(***************************************************************************)
EncodeState(s) == <<s[2]>>

DecodeState(bytes, pos) ==
    LET j == DecodeByte(bytes, pos)
    IN IF IsOk(j) THEN DOk(State(j[2]), j[3]) ELSE j

EncodeBranchKnowledge(bk) == <<IF Tag(bk) = "LowestId" THEN 0 ELSE 1, bk[2]>>

DecodeBranchKnowledge(bytes, pos) ==
    LET t == DecodeByte(bytes, pos)
    IN IF ~IsOk(t) THEN t
       ELSE IF t[2] \notin {0, 1} THEN DErr("invalid variant index of BranchKnowledge", t[3])
       ELSE LET id == DecodeByte(bytes, t[3])
            IN IF ~IsOk(id) THEN id
               ELSE DOk(IF t[2] = 0 THEN LowestId(id[2]) ELSE TopImported(id[2]), id[3])

EncodeRequest(r) == <<r[2]>> \o EncodeBranchKnowledge(r[3]) \o EncodeState(r[4])

DecodeRequest(bytes, pos) ==
    LET id == DecodeByte(bytes, pos)
    IN IF ~IsOk(id) THEN id
       ELSE LET bk == DecodeBranchKnowledge(bytes, id[3])
            IN IF ~IsOk(bk) THEN bk
               ELSE LET st == DecodeState(bytes, bk[3])
                    IN IF ~IsOk(st) THEN st
                       ELSE DOk(Request(id[2], bk[2], st[2]), st[3])

\* The three variants NetworkDataV1 and NetworkData share, indices 0..2.
EncodeCommon(data) ==
    CASE Tag(data) = "StateBroadcast" -> <<0>> \o EncodeState(data[2])
      [] Tag(data) = "StateBroadcastResponse" -> <<1, data[2]>> \o EncodeOption(data[3])
      [] Tag(data) = "Request" -> <<2>> \o EncodeRequest(data[2])

DecodeCommon(index, bytes, pos) ==
    CASE index = 0 ->
            LET st == DecodeState(bytes, pos)
            IN IF IsOk(st) THEN DOk(StateBroadcast(st[2]), st[3]) ELSE st
      [] index = 1 ->
            LET j == DecodeByte(bytes, pos)
            IN IF ~IsOk(j) THEN j
               ELSE LET mj == DecodeOption(bytes, j[3])
                    IN IF IsOk(mj) THEN DOk(StateBroadcastResponse(j[2], mj[2]), mj[3])
                       ELSE mj
      [] index = 2 ->
            LET rq == DecodeRequest(bytes, pos)
            IN IF IsOk(rq) THEN DOk(RequestMsg(rq[2]), rq[3]) ELSE rq

\* NetworkDataV1::encode
EncodeNetworkDataV1(data) ==
    IF Tag(data) = "RequestResponse" THEN <<3>> \o EncodeVec(data[2])
    ELSE EncodeCommon(data)

\* NetworkDataV1::decode
DecodeNetworkDataV1(bytes, pos) ==
    LET t == DecodeByte(bytes, pos)
    IN IF ~IsOk(t) THEN t
       ELSE IF t[2] \in {0, 1, 2} THEN DecodeCommon(t[2], bytes, t[3])
       ELSE IF t[2] = 3
            THEN LET js == DecodeVec(bytes, t[3])
                 IN IF IsOk(js) THEN DOk(RequestResponseV1(js[2]), js[3]) ELSE js
       ELSE DErr("invalid variant index of NetworkDataV1", t[3])

\* NetworkData::encode
EncodeNetworkData(data) ==
    IF Tag(data) = "RequestResponse"
    THEN <<3>> \o EncodeVec(data[2]) \o EncodeVec(data[3]) \o EncodeVec(data[4])
    ELSE EncodeCommon(data)

\* NetworkData::decode
DecodeNetworkData(bytes, pos) ==
    LET t == DecodeByte(bytes, pos)
    IN IF ~IsOk(t) THEN t
       ELSE IF t[2] \in {0, 1, 2} THEN DecodeCommon(t[2], bytes, t[3])
       ELSE IF t[2] = 3
            THEN LET js == DecodeVec(bytes, t[3])
                 IN IF ~IsOk(js) THEN js
                    ELSE LET hs == DecodeVec(bytes, js[3])
                         IN IF ~IsOk(hs) THEN hs
                            ELSE LET bs == DecodeVec(bytes, hs[3])
                                 IN IF ~IsOk(bs) THEN bs
                                    ELSE DOk(RequestResponse(js[2], hs[2], bs[2]), bs[3])
       ELSE DErr("invalid variant index of NetworkData", t[3])

(***************************************************************************)
(* The versioned envelope codec (data.rs 143-214).                         *)
(***************************************************************************)
\* aleph_primitives::MAX_BLOCK_SIZE (data.rs 7) is a constant of the chain,
\* defined outside this file.  The model takes the size of one block of the
\* one-byte block type B, so that payloads below, at and above the ceiling can
\* be enumerated.
MAX_BLOCK_SIZE == 1

MAX_SYNC_MESSAGE_SIZE == MAX_BLOCK_SIZE * 11

\* len.try_into().unwrap_or(ByteCount::MAX) for the usize len: usize to u32,
\* saturating.
SizeOfLen(len) == unwrap_or(ByteCount_try_from(len), ByteCount_MAX)

\* The size that encode_with_version writes for a payload.
SizeOf(payload) == SizeOfLen(Usize(Len(payload)))

\* The warning of encode_with_version is logged.
SizeWarning(payload) == U32_gt(SizeOf(payload), MAX_SYNC_MESSAGE_SIZE)

\* A framing that writes the size before the version.
encode_with_version_size_first(version, payload) == SizeOf(payload) \o version \o payload

\* A framing whose size counts the header as well as the payload.
encode_with_version_counting_header(version, payload) ==
    version \o SizeOf(version \o <<0, 0, 0, 0>> \o payload) \o payload

encode_with_version(version, payload) == version \o SizeOf(payload) \o payload

\* VersionedNetworkData::encode
encode(x) ==
    CASE Tag(x) = "Other" -> encode_with_version(x[2], x[3])
      [] Tag(x) = "V1" -> encode_with_version(Version(1), EncodeNetworkDataV1(x[2]))
      [] Tag(x) = "V2" -> encode_with_version(Version(2), EncodeNetworkData(x[2]))

\* size_of::<Version>() and size_of::<ByteCount>(): both are a u32.
size_of_Version == 4
size_of_ByteCount == 4

\* What the derived size_hint of a NetworkDataV1 or NetworkData returns when
\* a value of a type parameter hints h bytes: one byte for the variant index
\* and the hints of the fields; a Vec hints four bytes and the memory size of
\* its items, an Option one byte and the hint of its value.
DerivedSizeHint(data, h) ==
    CASE Tag(data) = "StateBroadcast" -> 1 + h
      [] Tag(data) = "StateBroadcastResponse" ->
            1 + h + 1 + (IF data[3] = <<>> THEN 0 ELSE h)
      [] Tag(data) = "Request" -> 1 + h + (1 + h) + h
      [] Tag(data) = "RequestResponse" ->
            IF Len(data) = 2 THEN 1 + (4 + Len(data[2]))
            ELSE 1 + (4 + Len(data[2])) + (4 + Len(data[3])) + (4 + Len(data[4]))

\* `data.size_hint()` is the inner type's own estimate.  Encode::size_hint
\* returns 0 unless a type overrides it, and J::Unverified, J::Header, B and
\* BlockIdFor<J> are any types that implement Encode: their values hint 0
\* bytes or their size.
SizeHints(data) == {0, DerivedSizeHint(data, 0), DerivedSizeHint(data, 1)}

\* A hint that counts the payload alone.
size_hint_without_header(x, data_size_hint) ==
    IF Tag(x) = "Other" THEN Len(x[3]) ELSE data_size_hint

\* VersionedNetworkData::size_hint, data_size_hint being what
\* `data.size_hint()` returns for a V1 or a V2.
size_hint(x, data_size_hint) ==
    size_of_Version + size_of_ByteCount
        + (CASE Tag(x) = "Other" -> Len(x[3])
             [] Tag(x) = "V1" -> data_size_hint
             [] Tag(x) = "V2" -> data_size_hint)

\* The result of VersionedNetworkData::decode: <<"Ok", value, pos, alloc>> or
\* <<"Err", message, pos, alloc>>, with pos the number of input bytes consumed
\* and alloc the length of the payload buffer that was allocated.
Decoded(r, alloc) == <<r[1], r[2], r[3], alloc>>
WrapOk(variant, r) == IF IsOk(r) THEN DOk(<<variant, r[2]>>, r[3]) ELSE r

\* An arm that lets one byte more than the ceiling through.
decode_unknown_off_by_one(version, num_bytes, bytes, pos) ==
    IF U32_gt(num_bytes, MAX_SYNC_MESSAGE_SIZE + 1)
    THEN Decoded(DErr("Sync message has unknown version and is encoded as more than the maximum size.",
                      pos), 0)
    ELSE LET n == U32_as_usize(num_bytes)
         IN IF Left(bytes, pos) < n
            THEN Decoded(DErr("Not enough data to fill buffer", pos), n)
            ELSE Decoded(DOk(Other(version, Take(bytes, pos, n)), pos + n), n)

\* An arm that refuses the ceiling itself (>= for >).
decode_unknown_refusing_boundary(version, num_bytes, bytes, pos) ==
    IF U32_gt(num_bytes, MAX_SYNC_MESSAGE_SIZE - 1)
    THEN Decoded(DErr("Sync message has unknown version and is encoded as more than the maximum size.",
                      pos), 0)
    ELSE LET n == U32_as_usize(num_bytes)
         IN IF Left(bytes, pos) < n
            THEN Decoded(DErr("Not enough data to fill buffer", pos), n)
            ELSE Decoded(DOk(Other(version, Take(bytes, pos, n)), pos + n), n)

\* The arm of decode for a version that is neither 1 nor 2: version and
\* num_bytes are decoded, pos is the position after them.
decode_unknown(version, num_bytes, bytes, pos) ==
    IF U32_gt(num_bytes, MAX_SYNC_MESSAGE_SIZE)
    THEN Decoded(DErr("Sync message has unknown version and is encoded as more than the maximum size.",
                      pos), 0)
    ELSE LET n == U32_as_usize(num_bytes)
         IN IF Left(bytes, pos) < n
            THEN Decoded(DErr("Not enough data to fill buffer", pos), n)
            ELSE Decoded(DOk(Other(version, Take(bytes, pos, n)), pos + n), n)

\* A decode that checks the declared length for every version.
decode_checking_every_version(bytes, pos) ==
    LET version == DecodeU32(bytes, pos)
    IN IF ~IsOk(version) THEN Decoded(version, 0)
       ELSE LET num_bytes == DecodeU32(bytes, version[3])
            IN IF ~IsOk(num_bytes) THEN Decoded(num_bytes, 0)
               ELSE IF U32_gt(num_bytes[2], MAX_SYNC_MESSAGE_SIZE)
                    THEN Decoded(DErr("Sync message is encoded as more than the maximum size.",
                                      num_bytes[3]), 0)
               ELSE CASE version[2] = Version(1) ->
                            Decoded(WrapOk("V1", DecodeNetworkDataV1(bytes, num_bytes[3])), 0)
                      [] version[2] = Version(2) ->
                            Decoded(WrapOk("V2", DecodeNetworkData(bytes, num_bytes[3])), 0)
                      [] OTHER ->
                            decode_unknown(version[2], num_bytes[2], bytes, num_bytes[3])

\* A decode that hands the inner decoder of a known version the declared
\* number of bytes and no more.
decode_bounding_known_payload(bytes, pos) ==
    LET version == DecodeU32(bytes, pos)
    IN IF ~IsOk(version) THEN Decoded(version, 0)
       ELSE LET num_bytes == DecodeU32(bytes, version[3])
            IN IF ~IsOk(num_bytes) THEN Decoded(num_bytes, 0)
               ELSE LET declared ==
                            IF U32_gt(num_bytes[2], Left(bytes, num_bytes[3])) THEN bytes
                            ELSE SubSeq(bytes, 1, num_bytes[3] + U32_as_usize(num_bytes[2]))
                    IN CASE version[2] = Version(1) ->
                                Decoded(WrapOk("V1", DecodeNetworkDataV1(declared, num_bytes[3])), 0)
                         [] version[2] = Version(2) ->
                                Decoded(WrapOk("V2", DecodeNetworkData(declared, num_bytes[3])), 0)
                         [] OTHER ->
                                decode_unknown(version[2], num_bytes[2], bytes, num_bytes[3])

\* VersionedNetworkData::decode
decode(bytes, pos) ==
    LET version == DecodeU32(bytes, pos)
    IN IF ~IsOk(version) THEN Decoded(version, 0)
       ELSE LET num_bytes == DecodeU32(bytes, version[3])
            IN IF ~IsOk(num_bytes) THEN Decoded(num_bytes, 0)
               ELSE CASE version[2] = Version(1) ->
                            Decoded(WrapOk("V1", DecodeNetworkDataV1(bytes, num_bytes[3])), 0)
                      [] version[2] = Version(2) ->
                            Decoded(WrapOk("V2", DecodeNetworkData(bytes, num_bytes[3])), 0)
                      [] OTHER ->
                            decode_unknown(version[2], num_bytes[2], bytes, num_bytes[3])

(***************************************************************************)
(* The inner transport N: GossipNetwork<VersionedNetworkData<B, J>>        *)
(* (data.rs 217-221, 236-240).  It is an external collaborator: each of    *)
(* its calls returns Ok or one of its own errors, chosen by the            *)
(* environment, and its next() resolves to a whole message or an error.    *)
(***************************************************************************)
Peers == {"p1", "p2"}
Errors == {"e1", "e2"}
Ok == "Ok"
SendResults == {Ok} \cup Errors

\* The NetworkData values the adapter is driven with: the RequestResponse
\* carries headers and blocks.
AdapterData ==
    { StateBroadcast(State(0)),
      RequestMsg(Request(1, TopImported(0), State(1))),
      RequestResponse(<<0, 1>>, <<1>>, <<0>>) }

\* What inner.next() can resolve to: <<"msg", message, peer>> or <<"err", e>>.
InnerNextResults ==
    { <<"msg", Other(Version(99), <<106, 117>>), "p1">>,
      <<"msg", V1(RequestMsg(Request(1, TopImported(0), State(1)))), "p2">>,
      <<"msg", V1(RequestResponseV1(<<0, 1>>)), "p1">>,
      <<"msg", V2(RequestResponse(<<0, 1>>, <<1>>, <<0>>)), "p1">>,
      <<"msg", V2(RequestResponse(<<0, 1>>, <<1>>, <<0>>)), "p2">>,
      <<"err", "e1">> }

NoSend == <<"none">>
NoItem == <<"none">>
NoCancel == -1

Init ==
    /\ pc = "idle"
    /\ innerCalls = <<>>
    /\ innerResults = <<>>
    /\ lastSend = NoSend
    /\ arrived = <<>>
    /\ yielded = <<>>
    /\ returned = <<>>
    /\ delivered = {}
    /\ callRead = {}
    /\ callStart = 0
    /\ callState = "none"
    /\ cancelledAt = NoCancel
    /\ channel = <<>>
    /\ sent = <<>>
    /\ item = NoItem
    /\ hist = <<>>

(***************************************************************************)
(* VersionWrapper's sends (data.rs 242-271).  A call on the inner          *)
(* transport is <<operation, message, target>>; r1 and r2 are what the     *)
(* transport returns for the first and, when it is made, the second call.  *)
(* The sends take &mut self, as next() does: none runs on an adapter while  *)
(* a next() future of that adapter is alive (the guard is in Next).         *)
(*                                                                         *)
(* What the transport does with a call it accepted is the transport's own: *)
(* send_to reaches the peer named, broadcast every peer, and               *)
(* send_to_random one peer of the given set, chosen by the transport anew  *)
(* on each call.  arrived holds, for each accepted call, the envelope and  *)
(* the set of peers it reached.                                            *)
(***************************************************************************)
InnerCall(op, msg, to) == <<op, msg, to>>

\* The sets of peers a call on the transport can reach.
Targets(call) ==
    CASE call[1] = "send_to" -> {{call[3]}}
      [] call[1] = "send_to_random" ->
            IF call[3] = {} THEN {{}} ELSE {{p} : p \in call[3]}
      [] call[1] = "broadcast" -> {Peers}

\* The envelope of an accepted call and the peers it reached.
Delivery(call, peers) == <<call[2], peers>>

\* A send that carries on after a failed first call and returns the second
\* call's result.
Recorded_without_short_circuit(op, data, to, c1, c2, r1, r2) ==
    /\ innerCalls' = <<c1, c2>>
    /\ innerResults' = <<r1, r2>>
    /\ lastSend' = <<op, data, to, r2>>
    /\ \E t1 \in Targets(c1), t2 \in Targets(c2) :
          arrived' = (IF r1 = Ok THEN <<Delivery(c1, t1)>> ELSE <<>>)
                        \o (IF r2 = Ok THEN <<Delivery(c2, t2)>> ELSE <<>>)
    /\ UNCHANGED <<pc, recvVars, codecVars>>

\* `first?; second`: the calls made, the transport's answers, and the
\* operation <<op, data, target, result>> as the caller sees it.
Recorded(op, data, to, c1, c2, r1, r2) ==
    /\ innerCalls' = IF r1 = Ok THEN <<c1, c2>> ELSE <<c1>>
    /\ innerResults' = IF r1 = Ok THEN <<r1, r2>> ELSE <<r1>>
    /\ lastSend' = <<op, data, to, IF r1 = Ok THEN r2 ELSE r1>>
    /\ \E t1 \in Targets(c1), t2 \in Targets(c2) :
          arrived' = (IF r1 = Ok THEN <<Delivery(c1, t1)>> ELSE <<>>)
                        \o (IF r1 = Ok /\ r2 = Ok THEN <<Delivery(c2, t2)>> ELSE <<>>)
    /\ UNCHANGED <<pc, recvVars, codecVars>>

\* The transport's answers to the calls of one send: the second is asked for
\* only when the first is Ok.
Answers == {<<r1, r2>> \in SendResults \X SendResults : r1 # Ok => r2 = Ok}

\* A send_to that offers the current form before the legacy one.
send_to_v2_first(data, peer_id) ==
    \E r \in Answers :
      Recorded("send_to", data, peer_id,
               InnerCall("send_to", V2(data), peer_id),
               InnerCall("send_to", V1(NetworkDataV1_from(data)), peer_id), r[1], r[2])

\* A send_to that offers the current form on both calls.
send_to_current_form_twice(data, peer_id) ==
    \E r \in Answers :
      Recorded("send_to", data, peer_id,
               InnerCall("send_to", V2(data), peer_id),
               InnerCall("send_to", V2(data), peer_id), r[1], r[2])

send_to(data, peer_id) ==
    \E r \in Answers :
      Recorded("send_to", data, peer_id,
               InnerCall("send_to", V1(NetworkDataV1_from(data)), peer_id),
               InnerCall("send_to", V2(data), peer_id), r[1], r[2])

send_to_random(data, peer_ids) ==
    \E r \in Answers :
      Recorded("send_to_random", data, peer_ids,
               InnerCall("send_to_random", V1(NetworkDataV1_from(data)), peer_ids),
               InnerCall("send_to_random", V2(data), peer_ids), r[1], r[2])

broadcast(data) ==
    \E r \in Answers :
      Recorded("broadcast", data, "all",
               InnerCall("broadcast", V1(NetworkDataV1_from(data)), "all"),
               InnerCall("broadcast", V2(data), "all"), r[1], r[2])

(***************************************************************************)
(* VersionWrapper::next (data.rs 278-286).  The only suspension point is   *)
(* `self.inner.next().await`: the future is either not started ("idle") or *)
(* suspended there ("waiting").  Whatever follows the await runs without   *)
(* suspending, so it is part of the step in which inner.next() resolves.   *)
(***************************************************************************)
NextOk(data, peer_id) == <<"Ok", data, peer_id>>
NextErr(err) == <<"Err", err>>

\* A match that hands a legacy message to the caller without converting it.
next_match_unconverted(r) ==
    IF r[1] = "err" THEN <<TRUE, NextErr(r[2])>>
    ELSE CASE Tag(r[2]) = "Other" -> <<FALSE>>
           [] OTHER -> <<TRUE, NextOk(r[2][2], r[3])>>

\* A match that drops a legacy message as it drops an Other.
next_match_discarding_v1(r) ==
    IF r[1] = "err" THEN <<TRUE, NextErr(r[2])>>
    ELSE CASE Tag(r[2]) \in {"Other", "V1"} -> <<FALSE>>
           [] Tag(r[2]) = "V2" -> <<TRUE, NextOk(r[2][2], r[3])>>

\* A match that answers an error of the transport by awaiting inner.next()
\* again.
next_match_retrying_on_error(r) ==
    IF r[1] = "err" THEN <<FALSE>>
    ELSE CASE Tag(r[2]) = "Other" -> <<FALSE>>
           [] Tag(r[2]) = "V1" -> <<TRUE, NextOk(NetworkData_from(r[2][2]), r[3])>>
           [] Tag(r[2]) = "V2" -> <<TRUE, NextOk(r[2][2], r[3])>>

\* One turn of the loop on the result r of inner.next(): the `?` and the
\* match.  <<TRUE, result>>: the call returns result; <<FALSE>>: it loops and
\* awaits inner.next() again.
next_match(r) ==
    IF r[1] = "err" THEN <<TRUE, NextErr(r[2])>>
    ELSE CASE Tag(r[2]) = "Other" -> <<FALSE>>
           [] Tag(r[2]) = "V1" -> <<TRUE, NextOk(NetworkData_from(r[2][2]), r[3])>>
           [] Tag(r[2]) = "V2" -> <<TRUE, NextOk(r[2][2], r[3])>>

\* The caller calls next() and the future suspends on inner.next().
next_call ==
    /\ pc = "idle"
    /\ pc' = "waiting"
    /\ callRead' = {}
    /\ callStart' = Len(yielded)
    /\ callState' = "pending"
    /\ UNCHANGED <<sendVars, yielded, returned, delivered, codecVars>>

\* A next() that suspends once more after reading a V1 or V2 message, so that
\* the message is held by the future and dropped with it.
next_resume_holding(r) ==
    /\ pc = "waiting"
    /\ yielded' = Append(yielded, r)
    /\ callRead' = IF r[1] = "msg" THEN callRead \cup {Len(yielded) + 1} ELSE callRead
    /\ IF r[1] = "err"
       THEN /\ returned' = Append(returned, NextErr(r[2]))
            /\ pc' = "idle"
            /\ callState' = "returned"
       ELSE UNCHANGED <<returned, pc, callState>>
    /\ UNCHANGED <<sendVars, delivered, callStart, codecVars>>

\* A next() that, once a call was cancelled, takes the first message a call
\* reads for the cancelled call's and drops it.
next_resume_skipping_after_cancel(r) ==
    /\ pc = "waiting"
    /\ yielded' = Append(yielded, r)
    /\ callRead' = IF r[1] = "msg" THEN callRead \cup {Len(yielded) + 1} ELSE callRead
    /\ LET m == IF cancelledAt # NoCancel /\ callRead = {} /\ r[1] = "msg"
                 THEN <<FALSE>> ELSE next_match(r)
       IN IF m[1]
          THEN /\ returned' = Append(returned, m[2])
               /\ delivered' = IF r[1] = "msg" THEN delivered \cup {Len(yielded) + 1}
                                ELSE delivered
               /\ pc' = "idle"
               /\ callState' = "returned"
          ELSE /\ UNCHANGED <<returned, delivered, pc, callState>>
    /\ UNCHANGED <<sendVars, callStart, codecVars>>

\* inner.next() resolves to r and the loop body runs.
next_resume(r) ==
    /\ pc = "waiting"
    /\ yielded' = Append(yielded, r)
    /\ callRead' = IF r[1] = "msg" THEN callRead \cup {Len(yielded) + 1} ELSE callRead
    /\ LET m == next_match(r)
       IN IF m[1]
          THEN /\ returned' = Append(returned, m[2])
               /\ delivered' = IF r[1] = "msg" THEN delivered \cup {Len(yielded) + 1}
                                ELSE delivered
               /\ pc' = "idle"
               /\ callState' = "returned"
          ELSE /\ UNCHANGED <<returned, delivered, pc, callState>>
    /\ UNCHANGED <<sendVars, callStart, codecVars>>

\* The caller drops the suspended future.
next_cancel ==
    /\ pc = "waiting"
    /\ pc' = "idle"
    /\ callState' = "cancelled"
    /\ UNCHANGED <<sendVars, yielded, returned, delivered, callRead, callStart,
                   codecVars>>

\* One adapter, its caller and its inner transport.  A send is made only
\* while no next() future borrows the adapter; the transport resolves at most
\* MaxYield calls of its next().
Next ==
    \/ \E d \in AdapterData, p \in Peers :
          pc = "idle" /\ send_to(d, p) /\ UNCHANGED auxVars
    \/ \E d \in AdapterData, s \in SUBSET Peers :
          pc = "idle" /\ send_to_random(d, s) /\ UNCHANGED auxVars
    \/ \E d \in AdapterData :
          pc = "idle" /\ broadcast(d) /\ UNCHANGED auxVars
    \/ next_call /\ UNCHANGED auxVars
    \/ \E r \in InnerNextResults :
          Len(yielded) < MaxYield /\ next_resume(r) /\ UNCHANGED auxVars
    \/ next_cancel /\ UNCHANGED auxVars

Spec == Init /\ [][Next]_vars

(***************************************************************************)
(* RecvSpec: the receiving side alone, the caller calling, awaiting and    *)
(* dropping next() futures; cancelledAt keeps where in the transport's     *)
(* stream the first future was dropped.                                    *)
(***************************************************************************)
RecvNext ==
    \/ next_call /\ UNCHANGED auxVars
    \/ \E r \in InnerNextResults :
          Len(yielded) < MaxRecv /\ next_resume(r) /\ UNCHANGED auxVars
    \/ /\ next_cancel
       /\ cancelledAt' = IF cancelledAt = NoCancel THEN Len(yielded) ELSE cancelledAt
       /\ UNCHANGED linkVars

RecvSpec == Init /\ [][RecvNext]_vars

(***************************************************************************)
(* LiveSpec: the receiving side under a fair scheduler, with a caller that *)
(* keeps its future.  The transport yields at most MaxOthers Other         *)
(* messages to a call and then a V1 message, a V2 message or an error; a   *)
(* call is made while the transport has that many results left to yield.   *)
(* inner.next() does resolve and the future is polled when it does: weak   *)
(* fairness of Resolve.                                                    *)
(***************************************************************************)
Resolve ==
    \E r \in InnerNextResults :
        /\ Len(yielded) < MaxLive
        /\ r[1] = "msg" /\ Tag(r[2]) = "Other" => Cardinality(callRead) < MaxOthers
        /\ next_resume(r)
        /\ UNCHANGED auxVars

LiveNext ==
    \/ /\ Len(yielded) + MaxOthers < MaxLive
       /\ next_call
       /\ UNCHANGED auxVars
    \/ Resolve

LiveSpec == Init /\ [][LiveNext]_vars /\ WF_vars(Resolve)


(***************************************************************************)
(* LinkSpec: two VersionWrapper instances joined by a reliable,            *)
(* order-preserving transport.  The sending adapter (sendVars) runs        *)
(* send_to; what the transport accepted for the peer Receiver travels      *)
(* encoded in channel, in order and once; the receiving adapter (pc,       *)
(* recvVars) is at Receiver, and its transport's next() resolves to the    *)
(* decoded head of channel, from the peer Sender.  The transport may       *)
(* refuse a call (Answers); the receiver's caller may drop its future.     *)
(***************************************************************************)
Receiver == "p1"
Sender == "p2"

\* The messages the sender is driven with.
LinkData ==
    { RequestMsg(Request(1, TopImported(0), State(1))),
      RequestResponse(<<0, 1>>, <<1>>, <<0>>) }

\* The encodings of the envelopes that reached the peer, in order.
WireTo(peer, deliveries) ==
    LET Reached(a) == peer \in a[2]
        got == SelectSeq(deliveries, Reached)
    IN [i \in 1..Len(got) |-> encode(got[i][1])]

\* What the receiving transport's next() resolves to for the bytes it was
\* sent.
Received(bytes) ==
    LET d == decode(bytes, 0)
    IN IF IsOk(d) THEN <<"msg", d[2], Sender>> ELSE <<"err", "e1">>

link_send_to(d, p) ==
    /\ Len(sent) < MaxSends
    /\ send_to(d, p)
    /\ sent' = Append(sent, <<lastSend', innerResults'>>)
    /\ channel' = channel \o WireTo(Receiver, arrived')
    /\ UNCHANGED cancelledAt

link_next_call == next_call /\ UNCHANGED auxVars

link_next_resume ==
    /\ channel # <<>>
    /\ next_resume(Received(Head(channel)))
    /\ channel' = Tail(channel)
    /\ UNCHANGED <<cancelledAt, sent>>

link_next_cancel == next_cancel /\ UNCHANGED auxVars

LinkNext ==
    \/ \E d \in LinkData, p \in Peers : link_send_to(d, p)
    \/ link_next_call
    \/ link_next_resume
    \/ link_next_cancel

LinkSpec == Init /\ [][LinkNext]_vars

(***************************************************************************)
(* CodecSpec: the pure functions applied to inputs drawn from bounded      *)
(* sets.  item is <<kind, value>>, kind one of "V1msg" (a NetworkDataV1),  *)
(* "V2msg" (a NetworkData), "Envelope" (a VersionedNetworkData), "Bytes"   *)
(* (an encoded input), "Decoded" (the result of decode), "Hint" (the       *)
(* result of size_hint), "Len" (the length of a payload, a usize) and      *)
(* "Size" (the byte_length written for it); hist holds the items it was    *)
(* computed from.                                                          *)
(***************************************************************************)
Options == {<<>>} \cup {<<j>> : j \in Vals}
BranchKnowledges == {LowestId(id) : id \in Vals} \cup {TopImported(id) : id \in Vals}
Requests == {Request(t, bk, State(j)) : t \in Vals, bk \in BranchKnowledges, j \in Vals}

\* A Vec of n items and a payload of n bytes.
Items(n) == [i \in 1..n |-> i % (MaxVal + 1)]
RawBytes(n) == [i \in 1..n |-> (37 * i) % 256]

CommonMsgs ==
    {StateBroadcast(State(j)) : j \in Vals}
        \cup {StateBroadcastResponse(j, mj) : j \in Vals, mj \in Options}
        \cup {RequestMsg(r) : r \in Requests}

\* NetworkDataV1 values; the long RequestResponses encode to
\* MAX_SYNC_MESSAGE_SIZE - 1, MAX_SYNC_MESSAGE_SIZE and
\* MAX_SYNC_MESSAGE_SIZE + 1 bytes.
V1Msgs ==
    CommonMsgs
        \cup {RequestResponseV1(js) : js \in SeqsUpTo(Vals, MaxVec)}
        \cup {RequestResponseV1(Items(n)) :
                n \in (MAX_SYNC_MESSAGE_SIZE - 3)..(MAX_SYNC_MESSAGE_SIZE - 1)}

\* NetworkData values; with long blocks a RequestResponse encodes to
\* MAX_SYNC_MESSAGE_SIZE - 1 bytes or more.
V2Msgs ==
    CommonMsgs
        \cup {RequestResponse(js, hs, bs) :
                js \in SeqsUpTo(Vals, MaxVec), hs \in SeqsUpTo(Vals, MaxVec),
                bs \in SeqsUpTo(Vals, 1)
                        \cup {Items(n) : n \in (MAX_SYNC_MESSAGE_SIZE - 5)
                                                 ..(MAX_SYNC_MESSAGE_SIZE - 3)}}

VersionSamples ==
    {Version(0), Version(1), Version(2), Version(3), Version(99), Version(513),
     <<255, 255, 255, 255>>}

\* Payloads of an Other and the bytes that follow a header: short ones over
\* the item values (some are encodings of messages, some are not), and raw
\* ones around MAX_SYNC_MESSAGE_SIZE bytes long.
PayloadSamples ==
    SeqsUpTo(Vals, MaxVec)
        \cup {EncodeNetworkDataV1(RequestResponseV1(<<0, 1>>)),
              EncodeNetworkData(RequestResponse(<<1>>, <<0>>, <<1>>))}
        \cup {RawBytes(n) : n \in (MAX_SYNC_MESSAGE_SIZE - 1)..(MAX_SYNC_MESSAGE_SIZE + 2)}

Envelopes ==
    {V1(m) : m \in V1Msgs} \cup {V2(m) : m \in V2Msgs}
        \cup {Other(v, p) : v \in VersionSamples, p \in PayloadSamples}

\* Declared byte_length values.
LengthSamples ==
    {U32(n) : n \in {0, 1, 2, MAX_SYNC_MESSAGE_SIZE - 1, MAX_SYNC_MESSAGE_SIZE,
                     MAX_SYNC_MESSAGE_SIZE + 1, 65536, 2147483647}}
        \cup {<<0, 0, 0, 128>>, ByteCount_MAX}

\* Inputs of decode that no encode need have produced: any header, followed
\* by any of the payloads, and the headers cut short.
WireInputs ==
    {v \o n \o p : v \in VersionSamples, n \in LengthSamples, p \in PayloadSamples}
        \cup {SubSeq(Version(3) \o U32(2), 1, k) : k \in 0..7}

\* Payload lengths (usize): up to 2^31 - 1, then 2^32 - 1, 2^32, 2^32 + 1,
\* 2^33 + 5 and isize::MAX.
PayloadLengths ==
    {Usize(n) : n \in {0, 1, MAX_SYNC_MESSAGE_SIZE, MAX_SYNC_MESSAGE_SIZE + 1, 65536,
                       2147483647}}
        \cup {<<0, 0, 0, 128, 0, 0, 0, 0>>, <<255, 255, 255, 255, 0, 0, 0, 0>>,
              <<0, 0, 0, 0, 1, 0, 0, 0>>, <<1, 0, 0, 0, 1, 0, 0, 0>>,
              <<5, 0, 0, 0, 2, 0, 0, 0>>, <<255, 255, 255, 255, 255, 255, 255, 127>>}

CodecInputs ==
    {<<"V1msg", m>> : m \in V1Msgs} \cup {<<"V2msg", m>> : m \in V2Msgs}
        \cup {<<"Envelope", x>> : x \in Envelopes}
        \cup {<<"Bytes", b>> : b \in WireInputs}
        \cup {<<"Len", l>> : l \in PayloadLengths}

CodecInit ==
    /\ pc = "idle"
    /\ innerCalls = <<>>
    /\ innerResults = <<>>
    /\ lastSend = NoSend
    /\ arrived = <<>>
    /\ yielded = <<>>
    /\ returned = <<>>
    /\ delivered = {}
    /\ callRead = {}
    /\ callStart = 0
    /\ callState = "none"
    /\ cancelledAt = NoCancel
    /\ channel = <<>>
    /\ sent = <<>>
    /\ item \in CodecInputs
    /\ hist = <<>>

Apply(kind, value) ==
    /\ Len(hist) < MaxHist
    /\ item' = <<kind, value>>
    /\ hist' = Append(hist, item)
    /\ UNCHANGED <<pc, sendVars, recvVars, auxVars>>

\* NetworkDataV1 -> NetworkData
Into_NetworkData ==
    /\ item[1] = "V1msg"
    /\ Apply("V2msg", NetworkData_from(item[2]))

\* NetworkData -> NetworkDataV1
Into_NetworkDataV1 ==
    /\ item[1] = "V2msg"
    /\ Apply("V1msg", NetworkDataV1_from(item[2]))

Encode ==
    /\ item[1] = "Envelope"
    /\ Apply("Bytes", encode(item[2]))

Decode ==
    /\ item[1] = "Bytes"
    /\ Apply("Decoded", decode(item[2], 0))

\* The byte_length that encode_with_version writes for a payload of the
\* given length.
Size ==
    /\ item[1] = "Len"
    /\ Apply("Size", SizeOfLen(item[2]))

SizeHint ==
    /\ item[1] = "Envelope"
    /\ \E h \in (IF Tag(item[2]) = "Other" THEN {0} ELSE SizeHints(item[2][2])) :
          Apply("Hint", size_hint(item[2], h))

CodecNext ==
    \/ Into_NetworkData
    \/ Into_NetworkDataV1
    \/ Encode
    \/ Decode
    \/ SizeHint
    \/ Size

CodecSpec == CodecInit /\ [][CodecNext]_vars

(***************************************************************************)
(* Properties of the adapter, checked under Spec.                          *)
(***************************************************************************)
Sent == lastSend # NoSend
IsVersioned(r) == r[1] = "msg" /\ Tag(r[2]) \in {"V1", "V2"}
IsOther(r) == r[1] = "msg" /\ Tag(r[2]) = "Other"
IsOkResult(x) == x[1] = "Ok"

\* C1: a successful adapter send of d makes exactly two calls on the inner
\* transport, with the adapter's own operation and target: first the V1 form
\* V1(toV1(d)), then the V2 form V2(d).
C1_DualSend ==
    (Sent /\ lastSend[4] = Ok) =>
        innerCalls = << <<lastSend[1], V1(NetworkDataV1_from(lastSend[2])), lastSend[3]>>,
                        <<lastSend[1], V2(lastSend[2]), lastSend[3]>> >>

\* A successful send_to_random of a RequestResponse with headers and blocks:
\* the V1 form has lost them, the peer set is the same in both calls.
C1_Witness ==
    /\ Sent
    /\ lastSend[1] = "send_to_random"
    /\ lastSend[4] = Ok
    /\ lastSend[3] = Peers
    /\ lastSend[2] = RequestResponse(<<0, 1>>, <<1>>, <<0>>)
    /\ innerCalls[1][2] = V1(RequestResponseV1(<<0, 1>>))
    /\ Len(innerCalls) = 2

\* C2: the adapter stops at the first inner send that fails and returns that
\* error unchanged: a failed V1 send is the only call made; a failed V2 send
\* is returned although the V1 form was sent; Ok only when both were Ok.
C2_FailFast ==
    Sent =>
        /\ Len(innerCalls) = Len(innerResults)
        /\ Len(innerCalls) \in {1, 2}
        /\ Tag(innerCalls[1][2]) = "V1"
        /\ innerResults[1] # Ok => Len(innerCalls) = 1 /\ lastSend[4] = innerResults[1]
        /\ innerResults[1] = Ok =>
              /\ Len(innerCalls) = 2
              /\ Tag(innerCalls[2][2]) = "V2"
              /\ lastSend[4] = innerResults[2]
        /\ lastSend[4] = Ok <=> \A i \in 1..Len(innerResults) : innerResults[i] = Ok

\* A broadcast whose V1 send succeeded and whose V2 send failed with e2.
C2_Witness ==
    /\ Sent
    /\ lastSend[1] = "broadcast"
    /\ innerResults = <<Ok, "e2">>
    /\ Len(innerCalls) = 2
    /\ lastSend[4] = "e2"

\* What a completed next() hands to the caller for a V1 or V2 message.
Converted(r) ==
    NextOk(IF Tag(r[2]) = "V1" THEN NetworkData_from(r[2][2]) ELSE r[2][2], r[3])

\* C3: the values returned by the completed next() calls are exactly the V1
\* and V2 messages the transport yielded, in transport order and once each,
\* V1(x) as toV2(x) and V2(y) as y, each with the peer it came from; an Other
\* message is never returned.
C3_ReceiveFilter ==
    LET msgs == SelectSeq(yielded, IsVersioned)
        oks == SelectSeq(returned, IsOkResult)
    IN /\ Len(oks) = Len(msgs)
       /\ \A i \in 1..Len(msgs) : oks[i] = Converted(msgs[i])

\* The transport yielded Other(99, "ju") and then a V1 Request from p2; the
\* first completed next() returned the Request, converted, from p2.
C3_Witness ==
    /\ Len(yielded) = 2
    /\ yielded[1] = <<"msg", Other(Version(99), <<106, 117>>), "p1">>
    /\ yielded[2] = <<"msg", V1(RequestMsg(Request(1, TopImported(0), State(1)))), "p2">>
    /\ returned = <<NextOk(RequestMsg(Request(1, TopImported(0), State(1))), "p2")>>

\* C6 as stated: after a cancellation, every message the cancelled call had
\* read from the transport has been returned to the caller, and if it had read
\* none, nothing was consumed.
C6_AsStated ==
    callState = "cancelled" =>
        /\ callRead \subseteq delivered
        /\ callRead = {} => Len(yielded) = callStart

\* C6 amended: no V1 or V2 message is lost by a cancellation: every V1 or V2
\* message read from the transport has been returned to the caller, a
\* cancelled call has read nothing but Other messages (which a completed call
\* discards as well), and a cancelled call that read no message has consumed
\* nothing from the transport.
C6_CancelSafe ==
    /\ \A i \in 1..Len(yielded) : IsVersioned(yielded[i]) => i \in delivered
    /\ callState = "cancelled" =>
          /\ \A i \in callRead : IsOther(yielded[i])
          /\ callRead = {} => Len(yielded) = callStart
          /\ Len(yielded) = callStart + Cardinality(callRead)

\* A call is cancelled after it read an Other message, and an earlier call
\* returned a V2 message.
C6_Witness ==
    /\ callState = "cancelled"
    /\ callRead = {2}
    /\ delivered = {1}
    /\ IsOther(yielded[2])

(***************************************************************************)
(* Properties of the conversions and of the envelope codec, checked under  *)
(* CodecSpec.                                                              *)
(***************************************************************************)
Chain == Append(hist, item)
KnownVersion(v) == v \in {Version(1), Version(2)}

\* item is decode(encode(x)) for the envelope x = hist[1][2].
RoundTripped ==
    /\ Len(hist) = 2
    /\ hist[1][1] = "Envelope"
    /\ hist[2][1] = "Bytes"
    /\ item[1] = "Decoded"

\* The number of payload bytes of an envelope.
PayloadLen(x) ==
    CASE Tag(x) = "Other" -> Len(x[3])
      [] Tag(x) = "V1" -> Len(EncodeNetworkDataV1(x[2]))
      [] Tag(x) = "V2" -> Len(EncodeNetworkData(x[2]))

\* item is decode(b) for an input b that holds a whole header.
DecodedInput == hist[Len(hist)][2]
DecodedWithHeader == item[1] = "Decoded" /\ Len(DecodedInput) >= 8
HeaderVersion == SubSeq(DecodedInput, 1, 4)
HeaderLength == SubSeq(DecodedInput, 5, 8)

\* C4 as stated: decode(encode(x)) = x for every envelope x, an Other of any
\* version with at most MAX_SYNC_MESSAGE_SIZE payload bytes included.
C4_AsStated ==
    (RoundTripped /\ (Tag(hist[1][2]) = "Other" => Len(hist[1][2][3]) <= MAX_SYNC_MESSAGE_SIZE))
        => (IsOk(item[2]) /\ item[2][2] = hist[1][2])

\* C4 amended: decode(encode(x)) succeeds, returns x exactly and consumes the
\* whole encoding, for every V1(m), every V2(m) and every Other(version, bytes)
\* whose version is neither 1 nor 2 and whose bytes are at most
\* MAX_SYNC_MESSAGE_SIZE long.
C4_RoundTrip ==
    (/\ RoundTripped
     /\ Tag(hist[1][2]) = "Other" =>
            /\ Len(hist[1][2][3]) <= MAX_SYNC_MESSAGE_SIZE
            /\ ~KnownVersion(hist[1][2][2]))
        => /\ IsOk(item[2])
           /\ item[2][2] = hist[1][2]
           /\ item[2][3] = Len(hist[2][2])

\* An Other of version 2^32 - 1 with exactly MAX_SYNC_MESSAGE_SIZE raw bytes
\* came back unchanged.
C4_Witness ==
    /\ RoundTripped
    /\ hist[1][2] = Other(<<255, 255, 255, 255>>, RawBytes(MAX_SYNC_MESSAGE_SIZE))
    /\ IsOk(item[2])
    /\ item[2][2] = hist[1][2]

\* C5: an input whose version is neither 1 nor 2 and whose declared
\* byte_length exceeds MAX_SYNC_MESSAGE_SIZE decodes to an error whatever
\* follows the header: nothing after the header is read and no payload buffer
\* is allocated.
C5_OversizeRejected ==
    (/\ DecodedWithHeader
     /\ ~KnownVersion(HeaderVersion)
     /\ U32_gt(HeaderLength, MAX_SYNC_MESSAGE_SIZE))
        => /\ item[2][1] = "Err"
           /\ item[2][3] = 8
           /\ item[2][4] = 0

\* Version 99 declares MAX_SYNC_MESSAGE_SIZE + 1 bytes and that many bytes
\* do follow: decode fails all the same.
C5_Witness ==
    /\ DecodedWithHeader
    /\ DecodedInput = Version(99) \o U32(MAX_SYNC_MESSAGE_SIZE + 1)
                        \o RawBytes(MAX_SYNC_MESSAGE_SIZE + 1)
    /\ item[2][1] = "Err"

\* C7: converting a NetworkDataV1 value up and down again gives it back.
C7_DownUpIdentity ==
    \A i \in 1..(Len(Chain) - 2) :
        Chain[i][1] = "V1msg" => Chain[i + 2] = Chain[i]

\* A legacy RequestResponse went up and down again.
C7_Witness ==
    /\ Len(hist) = 2
    /\ hist[1] = <<"V1msg", RequestResponseV1(<<0, 1>>)>>
    /\ hist[2] = <<"V2msg", RequestResponse(<<0, 1>>, <<>>, <<>>)>>
    /\ item = hist[1]

\* C8: converting a NetworkData value down and up again gives it back, except
\* that a RequestResponse(js, hs, bs) comes back as RequestResponse(js, [], []).
C8_UpDownLossy ==
    \A i \in 1..(Len(Chain) - 2) :
        Chain[i][1] = "V2msg" =>
            /\ Chain[i + 2][1] = "V2msg"
            /\ Chain[i + 2][2] =
                  IF Tag(Chain[i][2]) = "RequestResponse"
                  THEN RequestResponse(Chain[i][2][2], <<>>, <<>>)
                  ELSE Chain[i][2]

\* A RequestResponse with headers and blocks lost both and kept its
\* justifications.
C8_Witness ==
    /\ Len(hist) = 2
    /\ hist[1] = <<"V2msg", RequestResponse(<<1, 0>>, <<0>>, <<1>>)>>
    /\ item = <<"V2msg", RequestResponse(<<1, 0>>, <<>>, <<>>)>>

\* C9: an input whose version v is neither 1 nor 2 and whose declared
\* byte_length n is at most MAX_SYNC_MESSAGE_SIZE decodes to Other(v, b), b the
\* n bytes after the header, consuming the header and those n bytes, when n
\* bytes follow, and to an error when fewer follow.
C9_BoundedUnknown ==
    (/\ DecodedWithHeader
     /\ ~KnownVersion(HeaderVersion)
     /\ ~U32_gt(HeaderLength, MAX_SYNC_MESSAGE_SIZE))
        => LET n == U32_as_usize(HeaderLength)
           IN IF Len(DecodedInput) - 8 >= n
              THEN /\ IsOk(item[2])
                   /\ item[2][2] = Other(HeaderVersion, SubSeq(DecodedInput, 9, 8 + n))
                   /\ item[2][3] = 8 + n
              ELSE item[2][1] = "Err"

\* The boundary: MAX_SYNC_MESSAGE_SIZE bytes declared, two more follow, and
\* exactly the declared ones are taken.
C9_Witness ==
    /\ DecodedWithHeader
    /\ DecodedInput = Version(513) \o U32(MAX_SYNC_MESSAGE_SIZE)
                        \o RawBytes(MAX_SYNC_MESSAGE_SIZE + 2)
    /\ IsOk(item[2])
    /\ item[2][2] = Other(Version(513), RawBytes(MAX_SYNC_MESSAGE_SIZE))
    /\ item[2][3] = 8 + MAX_SYNC_MESSAGE_SIZE

\* C10 as stated: decode(encode(x)) is an error for every envelope x, Other,
\* V1 or V2, whose payload is longer than MAX_SYNC_MESSAGE_SIZE.
C10_AsStated ==
    (RoundTripped /\ PayloadLen(hist[1][2]) > MAX_SYNC_MESSAGE_SIZE)
        => item[2][1] = "Err"

\* C10 amended: for an envelope x whose payload is longer than
\* MAX_SYNC_MESSAGE_SIZE, decode(encode(x)) is an error when x is an Other of a
\* version that is neither 1 nor 2; when x is a V1 or a V2 the receiver makes
\* no size check and decode(encode(x)) returns x.
C10_OversizeUnknownOnly ==
    (RoundTripped /\ PayloadLen(hist[1][2]) > MAX_SYNC_MESSAGE_SIZE)
        => /\ (Tag(hist[1][2]) = "Other" /\ ~KnownVersion(hist[1][2][2]))
                  => item[2][1] = "Err"
           /\ Tag(hist[1][2]) \in {"V1", "V2"}
                  => (IsOk(item[2]) /\ item[2][2] = hist[1][2])

\* Both cases: an oversized Other was refused (the state this predicate
\* describes) and the encoding written by the sender warned about its size.
C10_Witness ==
    /\ RoundTripped
    /\ hist[1][2] = Other(Version(99), RawBytes(MAX_SYNC_MESSAGE_SIZE + 1))
    /\ SizeWarning(hist[1][2][3])
    /\ item[2][1] = "Err"

(***************************************************************************)
(* Delivery of the two wire forms, checked under Spec.                     *)
(***************************************************************************)
\* The peers a wire form of the last send reached.
ReachedBy(form) ==
    UNION {arrived[i][2] : i \in {j \in 1..Len(arrived) : arrived[j][1] = form}}

\* C11: after a successful adapter send_to, send_to_random or broadcast of d,
\* every peer that was delivered one wire form of d, V1(toV1(d)) or V2(d), was
\* delivered the other form as well.
C11_BothFormsToEachPeer ==
    (Sent /\ lastSend[4] = Ok) =>
        ReachedBy(V1(NetworkDataV1_from(lastSend[2]))) = ReachedBy(V2(lastSend[2]))

\* A successful send_to and a successful broadcast reached their peers with
\* both forms (the state described is the broadcast's).
C11_Witness ==
    /\ Sent
    /\ lastSend[1] = "broadcast"
    /\ lastSend[4] = Ok
    /\ ReachedBy(V1(NetworkDataV1_from(lastSend[2]))) = Peers
    /\ ReachedBy(V2(lastSend[2])) = Peers

(***************************************************************************)
(* Properties of size_hint, checked under CodecSpec.                       *)
(***************************************************************************)
\* item is size_hint(x) for the envelope x = HintedEnvelope.
Hinted == item[1] = "Hint" /\ Len(hist) = 1
HintedEnvelope == hist[1][2]

\* C12 as stated: size_hint(x) is at least the byte length of encode(x), for
\* every envelope x, Other, V1 or V2.
C12_AsStated ==
    Hinted => item[2] >= Len(encode(HintedEnvelope))

\* C12 amended: for an Other(v, p), size_hint is the width of the version tag
\* + 4 + the length of p, which is the byte length of its encoding exactly;
\* for a V1 or a V2 it is the width of the tag + 4 + the inner message's own
\* size hint, and it is at least the byte length of the encoding exactly when
\* that inner hint is at least the length of the inner encoding.
C12_SizeHint ==
    Hinted =>
        IF Tag(HintedEnvelope) = "Other"
        THEN /\ item[2] = 4 + 4 + Len(HintedEnvelope[3])
             /\ item[2] = Len(encode(HintedEnvelope))
        ELSE /\ item[2] - (4 + 4) \in SizeHints(HintedEnvelope[2])
             /\ item[2] >= Len(encode(HintedEnvelope))
                    <=> item[2] - (4 + 4) >= PayloadLen(HintedEnvelope)

\* Both kinds of inner hint for a legacy RequestResponse of two
\* justifications, whose encoding is 12 bytes long: the derived hint (the
\* state described) gives 15, a hint of 0 gives 8.
C12_Witness ==
    /\ Hinted
    /\ HintedEnvelope = V1(RequestResponseV1(<<0, 1>>))
    /\ Len(encode(HintedEnvelope)) = 12
    /\ item[2] = 15

(***************************************************************************)
(* Properties of the receiving side, checked under RecvSpec.               *)
(***************************************************************************)
\* What the transport yielded before and after the first cancellation.
BeforeCancel == SubSeq(yielded, 1, cancelledAt)
AfterCancel == SubSeq(yielded, cancelledAt + 1, Len(yielded))

\* C13: once a pending next() was cancelled, the V1 and V2 messages the
\* transport yields after the cancellation are the last values returned by
\* completed next() calls: one value each, in transport order, a V1 converted
\* and a V2 as it is, each with its peer; the values returned before them are
\* those of the messages yielded before the cancellation, so none is returned
\* twice; and whenever no call is pending the adapter holds no message: every
\* V1 or V2 message read was returned.
C13_CancelKeepsLaterMessages ==
    LET msgs == SelectSeq(AfterCancel, IsVersioned)
        oks == SelectSeq(returned, IsOkResult)
        base == Len(SelectSeq(BeforeCancel, IsVersioned))
    IN /\ cancelledAt # NoCancel =>
             /\ Len(oks) = base + Len(msgs)
             /\ \A k \in 1..Len(msgs) : oks[base + k] = Converted(msgs[k])
       /\ pc = "idle" =>
             \A i \in 1..Len(yielded) : IsVersioned(yielded[i]) => i \in delivered

\* A call read an Other message and was cancelled; the two calls after it
\* returned the V1 and the V2 message the transport yielded next.
C13_Witness ==
    /\ cancelledAt = 1
    /\ Len(yielded) = 3
    /\ IsOther(yielded[1])
    /\ returned = <<NextOk(RequestResponse(<<0, 1>>, <<>>, <<>>), "p1"),
                    NextOk(RequestResponse(<<0, 1>>, <<1>>, <<0>>), "p2")>>

(***************************************************************************)
(* Properties of the envelope codec, continued (CodecSpec).                *)
(***************************************************************************)
\* The input b with its byte_length field replaced by n.
WithLength(b, n) == SubSeq(b, 1, 4) \o n \o SubSeq(b, 9, Len(b))

\* C14: for an input whose version tag is 1 or 2, the declared byte_length
\* has no influence on decoding: the input decodes to the same result, value
\* or error, position included, as every input that differs from it in the
\* byte_length field alone, whether that length is the number of payload
\* bytes, another number, or more than MAX_SYNC_MESSAGE_SIZE.
C14_KnownVersionIgnoresLength ==
    (DecodedWithHeader /\ KnownVersion(HeaderVersion)) =>
        \A n \in LengthSamples : decode(WithLength(DecodedInput, n), 0) = item[2]

\* A legacy RequestResponse of 4 bytes under a declared length of 2^32 - 1
\* decoded to the message, 12 bytes consumed.
C14_Witness ==
    /\ DecodedWithHeader
    /\ DecodedInput = Version(1) \o ByteCount_MAX
                        \o EncodeNetworkDataV1(RequestResponseV1(<<0, 1>>))
    /\ item[2] = <<"Ok", V1(RequestResponseV1(<<0, 1>>)), 12, 0>>
    /\ decode(WithLength(DecodedInput, U32(0)), 0) = item[2]

\* item is encode(x) for the envelope x = hist[1][2].
Encoded == Len(hist) = 1 /\ hist[1][1] = "Envelope" /\ item[1] = "Bytes"

\* item is the byte_length written for a payload whose length is hist[1][2].
Sized == Len(hist) = 1 /\ hist[1][1] = "Len" /\ item[1] = "Size"

\* The version tag and the payload of an envelope.
TagOf(x) ==
    CASE Tag(x) = "Other" -> x[2]
      [] Tag(x) = "V1" -> <<1, 0, 0, 0>>
      [] Tag(x) = "V2" -> <<2, 0, 0, 0>>
PayloadOf(x) ==
    CASE Tag(x) = "Other" -> x[3]
      [] Tag(x) = "V1" -> EncodeNetworkDataV1(x[2])
      [] Tag(x) = "V2" -> EncodeNetworkData(x[2])

\* a < b for two unsigned integers of the same width, given as little-endian
\* bytes.
LessThan(a, b) ==
    \E i \in 1..Len(a) : a[i] < b[i] /\ \A j \in (i + 1)..Len(a) : a[j] = b[j]

\* C15: encode outputs the version tag, then the 32-bit byte_length, then the
\* whole payload, for every envelope, also when the payload is longer than
\* MAX_SYNC_MESSAGE_SIZE, where the warning is logged and the bytes are the
\* full envelope all the same; the byte_length written is min(payload length,
\* 2^32 - 1): the length itself when it fits in 32 bits, and 2^32 - 1, less
\* than the number of payload bytes, when it exceeds 2^32 - 1.
C15_EncodeNeverTruncates ==
    /\ Encoded =>
          LET x == hist[1][2]
              n == Len(PayloadOf(x))
          IN /\ Len(item[2]) = 4 + 4 + n
             /\ SubSeq(item[2], 1, 4) = TagOf(x)
             /\ SubSeq(item[2], 5, 8) =
                   <<n % 256, (n \div 256) % 256, (n \div 65536) % 256, n \div 16777216>>
             /\ SubSeq(item[2], 9, Len(item[2])) = PayloadOf(x)
             /\ SizeWarning(PayloadOf(x)) <=> n > MAX_SYNC_MESSAGE_SIZE
    /\ Sized =>
          LET len == hist[1][2]
          IN IF LessThan(<<255, 255, 255, 255, 0, 0, 0, 0>>, len)
             THEN /\ item[2] = <<255, 255, 255, 255>>
                  /\ LessThan(item[2] \o <<0, 0, 0, 0>>, len)
             ELSE item[2] \o <<0, 0, 0, 0>> = len

\* A payload of 2^32 + 1 bytes is given the byte_length 2^32 - 1 (the state
\* described); an envelope of MAX_SYNC_MESSAGE_SIZE + 2 payload bytes is
\* encoded whole, with the warning.
C15_Witness ==
    /\ Sized
    /\ hist[1][2] = <<1, 0, 0, 0, 1, 0, 0, 0>>
    /\ item[2] = ByteCount_MAX
    /\ SizeWarning(RawBytes(MAX_SYNC_MESSAGE_SIZE + 2))
    /\ Len(encode(Other(Version(3), RawBytes(MAX_SYNC_MESSAGE_SIZE + 2))))
          = 8 + MAX_SYNC_MESSAGE_SIZE + 2

(***************************************************************************)
(* Liveness of next(), checked under LiveSpec.                             *)
(***************************************************************************)
\* What the current or most recent call of next() was given by the
\* transport.
CallResults == SubSeq(yielded, callStart + 1, Len(yielded))
IsTerminal(r) == ~IsOther(r)

\* A pending call has been given Other messages only, one wait on
\* inner.next() for each; a call that returned was given Other messages and
\* then one V1 message, V2 message or error, which is what it returned; and
\* nothing but those last results was ever returned.
OneWaitPerOther ==
    /\ callState = "pending" =>
          /\ \A i \in 1..Len(CallResults) : IsOther(CallResults[i])
          /\ callRead = (callStart + 1)..Len(yielded)
    /\ callState = "returned" =>
          /\ Len(CallResults) >= 1
          /\ \A i \in 1..(Len(CallResults) - 1) : IsOther(CallResults[i])
          /\ IsTerminal(yielded[Len(yielded)])
          /\ returned[Len(returned)] =
                IF yielded[Len(yielded)][1] = "err"
                THEN NextErr(yielded[Len(yielded)][2])
                ELSE Converted(yielded[Len(yielded)])
    /\ Len(returned) = Len(SelectSeq(yielded, IsTerminal))

\* C16: under a fair scheduler, when the transport yields finitely many Other
\* messages and then a V1 message, a V2 message or an error, a pending next()
\* eventually returns, that message converted or that error; each Other
\* message costs exactly one more wait on inner.next() and is neither queued
\* nor retried, and next() returns on a V1 message, a V2 message or an error
\* only, never while the transport yields Other messages alone.
C16_NextReturns ==
    /\ [](OneWaitPerOther)
    /\ (callState = "pending") ~> (callState = "returned")

\* A call was given MaxOthers Other messages and then a legacy
\* RequestResponse, and returned it converted.
C16_Witness ==
    /\ callState = "returned"
    /\ callStart = 0
    /\ Len(yielded) = MaxOthers + 1
    /\ \A i \in 1..MaxOthers : IsOther(yielded[i])
    /\ returned = <<NextOk(RequestResponse(<<0, 1>>, <<>>, <<>>), "p1")>>

(***************************************************************************)
(* Errors of the transport's next(), checked under RecvSpec.               *)
(***************************************************************************)
\* C17: an error e of the transport's next() is returned by the adapter's
\* next() as e itself, by the call that was pending, also when that call had
\* discarded Other messages before; the call ends there, having awaited
\* inner.next() once for each Other message and once for the error and no
\* more; and what the transport yields after the error goes to the calls
\* made later: the results of the completed calls are, in order, the errors,
\* V1 messages and V2 messages the transport yielded.
C17_ErrorsPassThrough ==
    LET terminals == SelectSeq(yielded, IsTerminal)
    IN /\ Len(returned) = Len(terminals)
       /\ \A k \in 1..Len(terminals) :
             returned[k] = IF terminals[k][1] = "err" THEN <<"Err", terminals[k][2]>>
                           ELSE Converted(terminals[k])
       /\ (callState = "returned" /\ yielded[Len(yielded)][1] = "err") =>
             /\ pc = "idle"
             /\ \A i \in callRead : IsOther(yielded[i])
             /\ Len(yielded) = callStart + Cardinality(callRead) + 1

\* A call discarded an Other message and was then given the error e1, which
\* it returned; the V2 message yielded next was returned by the next call.
C17_Witness ==
    /\ Len(yielded) = 3
    /\ IsOther(yielded[1])
    /\ yielded[2] = <<"err", "e1">>
    /\ returned = <<<<"Err", "e1">>, NextOk(RequestResponse(<<0, 1>>, <<1>>, <<0>>), "p2")>>
    /\ cancelledAt = NoCancel

(***************************************************************************)
(* Two joined adapters, checked under LinkSpec.                            *)
(***************************************************************************)
\* What the receiver's next() is to return for one send of the sender: for a
\* send_to(d, Receiver), toV2(toV1(d)) if the transport accepted the first
\* call and then d if it accepted the second; nothing for a send to another
\* peer.
CopiesOf(entry) ==
    LET d == entry[1][2]
        first == <<"Ok", NetworkData_from(NetworkDataV1_from(d)), Sender>>
        second == <<"Ok", d, Sender>>
    IN IF entry[1][3] # Receiver THEN <<>>
       ELSE IF entry[2] = <<Ok, Ok>> THEN <<first, second>>
       ELSE IF entry[2][1] = Ok THEN <<first>>
       ELSE <<>>

RECURSIVE Expected(_)
Expected(log) ==
    IF log = <<>> THEN <<>>
    ELSE Expected(SubSeq(log, 1, Len(log) - 1)) \o CopiesOf(log[Len(log)])

\* The successful sends to the receiver, and whether every send succeeded.
SuccessfulSends == {i \in 1..Len(sent) : sent[i][1][3] = Receiver /\ sent[i][1][4] = Ok}
AllSucceeded == \A i \in 1..Len(sent) : sent[i][1][4] = Ok

C19_ForwardCompatibleFraming ==
    (/\ Encoded
     /\ Tag(hist[1][2]) \in {"V1", "V2"}
     /\ Len(PayloadOf(hist[1][2])) <= MAX_SYNC_MESSAGE_SIZE)
        => LET b == item[2]
               k == SubSeq(b, 1, 4)
               n == SubSeq(b, 5, 8)
               p == PayloadOf(hist[1][2])
           IN /\ k = TagOf(hist[1][2])
              /\ U32_as_usize(n) = Len(b) - 8
              /\ decode_unknown(k, n, b, 8) = <<"Ok", Other(k, p), Len(b), Len(p)>>
              /\ decode_unknown(k, n, b \o <<7, 7>>, 8) = <<"Ok", Other(k, p), Len(b), Len(p)>>
              /\ encode(Other(k, p)) = b

\* A current RequestResponse whose inner encoding is exactly
\* MAX_SYNC_MESSAGE_SIZE bytes long, read as an Other of version 2.
C19_Witness ==
    /\ Encoded
    /\ hist[1][2] = V2(RequestResponse(<<>>, <<>>, Items(MAX_SYNC_MESSAGE_SIZE - 4)))
    /\ Len(PayloadOf(hist[1][2])) = MAX_SYNC_MESSAGE_SIZE
    /\ decode_unknown(Version(2), SubSeq(item[2], 5, 8), item[2], 8)[2]
          = Other(Version(2), PayloadOf(hist[1][2]))

=============================================================================
